---- MODULE Spec2Model ----
(***************************************************************************)
(* combo_sensor_ble.ino: an Arduino sketch that samples temperature,       *)
(* humidity, pressure and colour and writes changed values to four BLE     *)
(* characteristics while a central is connected.                           *)
(*                                                                         *)
(* Fixed point.  Raw temperature and calibration are in thousandths of a   *)
(* degree Celsius, raw humidity in thousandths of a percent, raw pressure  *)
(* in units of 10^-5 kPa, so that the float products of the sketch         *)
(* (x * 100, x * 1000 * 10) are "raw divided by 10" and the (int) casts    *)
(* are truncations toward zero of that quotient.                           *)
(*                                                                         *)
(* Time.  millis() is a W-bit counter; long values are W-bit two's         *)
(* complement.  Time passes where the sketch polls or blocks: between two  *)
(* iterations of loop()/the connected while loop, in delay(), and in the   *)
(* halt loop.  One iteration of the connected loop takes far less than     *)
(* ClockStep, so the clock gains at most one ClockStep per iteration.      *)
(***************************************************************************)
EXTENDS Integers, Sequences, FiniteSets, TLC

VARIABLES
    pc,                  \* position of the single thread of control
    began,               \* sequence of <<component, result>> of the begin() calls made
    advertising,         \* BLE.advertise() has been called
    linkUp,              \* transport: a central is connected right now
    central,             \* loop(): the local `central` is a connected device
    led,                 \* LED_BUILTIN level
    clock,               \* millis() counter, 0 .. Modulus-1
    previousMillis,      \* signed long
    previousTemperature, previousHumidity, previousPressure, previousColor,
    r, g, b, a,          \* shared colour intensities
    temperature, humidity, pressure,   \* locals of updateReadings
    rawT, rawH, rawP,    \* sensor readings taken by the current cycle
    rawC,                \* colour reading taken by the current cycle, <<>> before it
    reads,               \* number of reads of each channel in the current cycle
    tempChar, humidChar, pressureChar, colorChar, \* value last handed to each characteristic
    wrote,               \* channel whose writeValue ran in the latest step, or "none"
    writeOk,             \* result of that writeValue
    elapsed,             \* real ms since the clock sample of the last firing (saturating)
    gap,                 \* at a firing: real ms between its clock sample and the previous one
    firstCycle,          \* no update cycle has completed yet
    codecArgs, codecResult   \* argument and result of a codec call checked in isolation

vars == <<pc, began, advertising, linkUp, central, led, clock, previousMillis,
          previousTemperature, previousHumidity, previousPressure, previousColor,
          r, g, b, a, temperature, humidity, pressure, rawT, rawH, rawP,
          rawC, reads, tempChar, humidChar, pressureChar, colorChar, wrote, writeOk,
          elapsed, gap, firstCycle, codecArgs, codecResult>>

----------------------------------------------------------------------------
(* Bounds *)

W == 13                      \* width of millis() and of long in the model
MaxMilli == 12               \* codec inputs range over -MaxMilli .. MaxMilli thousandths

Modulus == 2^W
HalfModulus == 2^(W-1)
ClockStep == 2^(W-3)         \* granularity of observed time
MaxElapsed == Modulus        \* saturation of the real-time ghosts

(* Program constants *)

UPDATE_FREQUENCY == 2000
CALIBRATION_FACTOR == -4000  \* -4.0 degrees Celsius in thousandths
ColorCapacity == 24          \* value size of colorCharacteristic in bytes

(* Sensor inputs *)

TempReadings == {4000, 21500, 21567}
HumReadings == {0, 45230}
PresReadings == {10132500, 10132507}
ColorReadings == {<<100, 200, 300, 50>>, <<65535, 65535, 65535, 65535>>}

TempInputs == (-MaxMilli .. MaxMilli) \cup {-12347, 21500, 21567}
CalInputs == {CALIBRATION_FACTOR, 0, -1255, 1255}
PresInputs == (0 .. MaxMilli) \cup {10132500, 10132507}
ColorInputs == {0, 9, 10, 9999, 10000, 65535}

Min(x, y) == IF x <= y THEN x ELSE y

----------------------------------------------------------------------------
(* Arithmetic of the sketch *)

\* (int) of a float: truncation toward zero of num/den
Trunc(num, den) == IF num >= 0 THEN num \div den ELSE -((-num) \div den)

\* round(): nearest integer, halves away from zero
Round(num, den) ==
    IF num >= 0 THEN (2 * num + den) \div (2 * den)
                ELSE -((2 * (-num) + den) \div (2 * den))

\* a W-bit two's complement value
ToSigned(x) == LET m == x % Modulus IN IF m >= HalfModulus THEN m - Modulus ELSE m

getTemperature(reading, calibration) == Trunc(reading, 10) + Trunc(calibration, 10)

getHumidity(reading) == Trunc(reading, 10)

getPressure(reading) == Trunc(reading, 10)

\* the interval test without the subtraction
IntervalElapsedAbsolute(currentMillis, prevMillis) ==
    currentMillis >= UPDATE_FREQUENCY

\* the interval test with == in place of >=
IntervalElapsedExact(currentMillis, prevMillis) ==
    ToSigned(currentMillis - prevMillis) = UPDATE_FREQUENCY

IntervalElapsed(currentMillis, prevMillis) ==
    ToSigned(currentMillis - prevMillis) >= UPDATE_FREQUENCY

\* no change filter
ShouldPublishAlways(new, previous) == TRUE

ShouldPublish(new, previous) == new # previous

\* String += int: decimal digits as ASCII codes
RECURSIVE Digits(_)
Digits(n) == IF n < 10 THEN <<48 + n>> ELSE Append(Digits(n \div 10), 48 + (n % 10))

IntToStr(n) == IF n < 0 THEN <<45>> \o Digits(-n) ELSE Digits(n)

\* ", " as separator
CommaSpace == <<44, 32>>

Comma == <<44>>

ColorString(cr, cg, cb, ca) ==
    IntToStr(cr) \o Comma \o IntToStr(cg) \o Comma \o IntToStr(cb) \o Comma \o IntToStr(ca)

\* String::getBytes(buf, len + 1): the characters and the terminating NUL
GetBytes(str) == Append(str, 0)

----------------------------------------------------------------------------
(* State after construction of the globals, before setup() *)

\* no channel has been read in this cycle
NoReads == [temperature |-> 0, humidity |-> 0, pressure |-> 0, color |-> 0]

\* a baseline that differs from every encoded value
PreviousInitSentinel ==
    [temperature |-> -1, humidity |-> -1, pressure |-> -1, color |-> <<>>]

\* previousTemperature = 0, previousHumidity = 0, previousPressure = 0,
\* previousColor = ""
PreviousInit ==
    [temperature |-> 0, humidity |-> 0, pressure |-> 0, color |-> <<>>]

Init ==
    /\ pc = "setup_hts"
    /\ began = <<>>
    /\ advertising = FALSE
    /\ linkUp = FALSE
    /\ central = FALSE
    /\ led = "LOW"
    /\ clock = 0
    /\ previousMillis = 0
    /\ previousTemperature = PreviousInit.temperature
    /\ previousHumidity = PreviousInit.humidity
    /\ previousPressure = PreviousInit.pressure
    /\ previousColor = PreviousInit.color
    /\ r = 0 /\ g = 0 /\ b = 0 /\ a = 0
    /\ temperature = 0 /\ humidity = 0 /\ pressure = 0
    /\ rawT = 0 /\ rawH = 0 /\ rawP = 0
    /\ rawC = <<>>
    /\ reads = NoReads
    /\ tempChar = 0 /\ humidChar = 0 /\ pressureChar = 0 /\ colorChar = <<>>
    /\ wrote = "none"
    /\ writeOk = TRUE
    /\ elapsed = 0
    /\ gap = 0
    /\ firstCycle = TRUE
    /\ codecArgs = <<>>
    /\ codecResult = 0

filterVars == <<previousTemperature, previousHumidity, previousPressure, previousColor>>
charVars == <<tempChar, humidChar, pressureChar, colorChar>>
colorVars == <<r, g, b, a>>
localVars == <<temperature, humidity, pressure, rawT, rawH, rawP, rawC, reads>>
codecVars == <<codecArgs, codecResult>>
linkVars == <<advertising, linkUp>>

\* no writeValue ran in this step
NoWrite == wrote' = "none" /\ writeOk' = TRUE

\* d ms of real time pass
TimePasses(d) ==
    /\ clock' = (clock + d) % Modulus
    /\ elapsed' = Min(elapsed + d, MaxElapsed)

NoTimePasses == UNCHANGED <<clock, elapsed>>

----------------------------------------------------------------------------
(* setup() *)

SetupHTSNoHalt ==
    /\ pc = "setup_hts"
    /\ \E ok \in BOOLEAN :
         /\ began' = Append(began, <<"HTS", ok>>)
         /\ pc' = "setup_baro"
    /\ NoWrite /\ NoTimePasses
    /\ UNCHANGED <<linkVars, central, led, previousMillis, filterVars, colorVars,
                   localVars, charVars, gap, firstCycle, codecVars>>

SetupHTS ==
    /\ pc = "setup_hts"
    /\ \E ok \in BOOLEAN :
         /\ began' = Append(began, <<"HTS", ok>>)
         /\ pc' = IF ok THEN "setup_baro" ELSE "halted"
    /\ NoWrite /\ NoTimePasses
    /\ UNCHANGED <<linkVars, central, led, previousMillis, filterVars, colorVars,
                   localVars, charVars, gap, firstCycle, codecVars>>

\* BARO.begin(); on success BARO.readPressure() and delay(1000)
SetupBARO ==
    /\ pc = "setup_baro"
    /\ \E ok \in BOOLEAN :
         /\ began' = Append(began, <<"BARO", ok>>)
         /\ IF ok THEN pc' = "setup_apds" /\ TimePasses(ClockStep)
                  ELSE pc' = "halted" /\ NoTimePasses
    /\ NoWrite
    /\ UNCHANGED <<linkVars, central, led, previousMillis, filterVars, colorVars,
                   localVars, charVars, gap, firstCycle, codecVars>>

\* APDS.begin(); on success pinMode(LED_BUILTIN, OUTPUT)
SetupAPDS ==
    /\ pc = "setup_apds"
    /\ \E ok \in BOOLEAN :
         /\ began' = Append(began, <<"APDS", ok>>)
         /\ pc' = IF ok THEN "setup_ble" ELSE "halted"
    /\ NoWrite /\ NoTimePasses
    /\ UNCHANGED <<linkVars, central, led, previousMillis, filterVars, colorVars,
                   localVars, charVars, gap, firstCycle, codecVars>>

\* BLE.begin(); on success the service is built, the four characteristics
\* get their initial values and advertising starts
SetupBLE ==
    /\ pc = "setup_ble"
    /\ \E ok \in BOOLEAN :
         /\ began' = Append(began, <<"BLE", ok>>)
         /\ IF ok
            THEN /\ tempChar' = 0
                 /\ humidChar' = 0
                 /\ pressureChar' = 0
                 /\ colorChar' = <<>>
                 /\ advertising' = TRUE
                 /\ pc' = "loop"
            ELSE /\ UNCHANGED <<charVars, advertising>>
                 /\ pc' = "halted"
    /\ NoWrite /\ NoTimePasses
    /\ UNCHANGED <<linkUp, central, led, previousMillis, filterVars, colorVars,
                   localVars, gap, firstCycle, codecVars>>

\* while (1);
Halted ==
    /\ pc = "halted"
    /\ TimePasses(ClockStep)
    /\ NoWrite
    /\ UNCHANGED <<pc, began, linkVars, central, led, previousMillis, filterVars,
                   colorVars, localVars, charVars, gap, firstCycle, codecVars>>

----------------------------------------------------------------------------
(* The transport: a central connects to the advertising peripheral, or the *)
(* link drops, at any moment                                               *)

LinkUp ==
    /\ advertising /\ ~linkUp
    /\ linkUp' = TRUE
    /\ NoWrite /\ NoTimePasses
    /\ UNCHANGED <<pc, began, advertising, central, led, previousMillis, filterVars,
                   colorVars, localVars, charVars, gap, firstCycle, codecVars>>

LinkDown ==
    /\ linkUp
    /\ linkUp' = FALSE
    /\ NoWrite /\ NoTimePasses
    /\ UNCHANGED <<pc, began, advertising, central, led, previousMillis, filterVars,
                   colorVars, localVars, charVars, gap, firstCycle, codecVars>>

----------------------------------------------------------------------------
(* loop() *)

\* BLE.central() returns no device: loop() returns and is called again
LoopIdleUngated ==
    /\ pc = "loop" /\ ~linkUp
    /\ pc' = "read"
    /\ TimePasses(ClockStep)
    /\ NoWrite
    /\ UNCHANGED <<began, linkVars, central, led, previousMillis, filterVars,
                   colorVars, localVars, charVars, gap, firstCycle, codecVars>>

LoopIdle ==
    /\ pc = "loop" /\ ~linkUp
    /\ TimePasses(ClockStep)
    /\ NoWrite
    /\ UNCHANGED <<pc, began, linkVars, central, led, previousMillis, filterVars,
                   colorVars, localVars, charVars, gap, firstCycle, codecVars>>

\* a connection that restarts the interval
ConnectResetsTimer ==
    /\ pc = "loop" /\ linkUp
    /\ central' = TRUE
    /\ led' = "HIGH"
    /\ previousMillis' = ToSigned(clock)
    /\ pc' = "connected"
    /\ NoWrite /\ NoTimePasses
    /\ UNCHANGED <<began, linkVars, filterVars, colorVars,
                   localVars, charVars, gap, firstCycle, codecVars>>

\* a connection that clears the change filter
ConnectResetsFilter ==
    /\ pc = "loop" /\ linkUp
    /\ central' = TRUE
    /\ led' = "HIGH"
    /\ previousTemperature' = PreviousInit.temperature
    /\ previousHumidity' = PreviousInit.humidity
    /\ previousPressure' = PreviousInit.pressure
    /\ previousColor' = PreviousInit.color
    /\ pc' = "connected"
    /\ NoWrite /\ NoTimePasses
    /\ UNCHANGED <<began, linkVars, previousMillis, colorVars,
                   localVars, charVars, gap, firstCycle, codecVars>>

\* BLE.central() returns a device: LED on, enter the while loop
Connect ==
    /\ pc = "loop" /\ linkUp
    /\ central' = TRUE
    /\ led' = "HIGH"
    /\ pc' = "connected"
    /\ NoWrite /\ NoTimePasses
    /\ UNCHANGED <<began, linkVars, previousMillis, filterVars, colorVars,
                   localVars, charVars, gap, firstCycle, codecVars>>

\* central.connected() is false: leave the while loop, LED off, loop() returns
DisconnectLedStuck ==
    /\ pc = "connected" /\ ~linkUp
    /\ central' = FALSE
    /\ pc' = "loop"
    /\ NoWrite /\ NoTimePasses
    /\ UNCHANGED <<began, linkVars, led, previousMillis, filterVars, colorVars,
                   localVars, charVars, gap, firstCycle, codecVars>>

Disconnect ==
    /\ pc = "connected" /\ ~linkUp
    /\ central' = FALSE
    /\ led' = "LOW"
    /\ pc' = "loop"
    /\ NoWrite /\ NoTimePasses
    /\ UNCHANGED <<began, linkVars, previousMillis, filterVars, colorVars,
                   localVars, charVars, gap, firstCycle, codecVars>>

\* one iteration of the while loop whose interval test is false
SchedulerIdle ==
    /\ pc = "connected" /\ linkUp
    /\ \E d \in {0, ClockStep} :
         /\ ~IntervalElapsed(ToSigned(clock + d), previousMillis)
         /\ TimePasses(d)
    /\ NoWrite
    /\ UNCHANGED <<pc, began, linkVars, central, led, previousMillis, filterVars,
                   colorVars, localVars, charVars, gap, firstCycle, codecVars>>

\* one iteration whose interval test is true: previousMillis = currentMillis
\* and updateReadings() is entered
SchedulerFire ==
    /\ pc = "connected" /\ linkUp
    /\ \E d \in {0, ClockStep} :
         /\ IntervalElapsed(ToSigned(clock + d), previousMillis)
         /\ clock' = (clock + d) % Modulus
         /\ previousMillis' = ToSigned(clock + d)
         /\ gap' = Min(elapsed + d, MaxElapsed)
         /\ elapsed' = 0
    /\ pc' = "read"
    /\ NoWrite
    /\ UNCHANGED <<began, linkVars, central, led, filterVars, colorVars,
                   localVars, charVars, firstCycle, codecVars>>

----------------------------------------------------------------------------
(* updateReadings() *)

\* getTemperature(CALIBRATION_FACTOR), getHumidity(), getPressure()
ReadSensors ==
    /\ pc = "read"
    /\ \E t \in TempReadings, h \in HumReadings, p \in PresReadings :
         /\ rawT' = t /\ rawH' = h /\ rawP' = p
         /\ temperature' = getTemperature(t, CALIBRATION_FACTOR)
         /\ humidity' = getHumidity(h)
         /\ pressure' = getPressure(p)
    /\ reads' = [reads EXCEPT !.temperature = @ + 1, !.humidity = @ + 1,
                              !.pressure = @ + 1]
    /\ UNCHANGED rawC
    /\ pc' = "get_color"
    /\ gap' = 0
    /\ NoWrite /\ NoTimePasses
    /\ UNCHANGED <<began, linkVars, central, led, previousMillis, filterVars,
                   colorVars, charVars, firstCycle, codecVars>>

\* a poll that reads the sensor before a reading is available
ColorNotReadyClobbers ==
    /\ pc = "get_color"
    /\ r' = 0 /\ g' = 0 /\ b' = 0 /\ a' = 0
    /\ TimePasses(ClockStep)
    /\ NoWrite
    /\ UNCHANGED <<pc, began, linkVars, central, led, previousMillis, filterVars,
                   localVars, charVars, gap, firstCycle, codecVars>>

\* getColor(): APDS.colorAvailable() is false, delay(5) and poll again
ColorNotReady ==
    /\ pc = "get_color"
    /\ TimePasses(ClockStep)
    /\ NoWrite
    /\ UNCHANGED <<pc, began, linkVars, central, led, previousMillis, filterVars,
                   colorVars, localVars, charVars, gap, firstCycle, codecVars>>

\* getColor(): APDS.colorAvailable() is true, APDS.readColor() into r, g, b, a
ColorReadyDropsAmbient ==
    /\ pc = "get_color"
    /\ \E c \in ColorReadings :
         /\ rawC' = c
         /\ r' = c[1] /\ g' = c[2] /\ b' = c[3] /\ a' = a
    /\ reads' = [reads EXCEPT !.color = @ + 1]
    /\ pc' = "filter_temperature"
    /\ NoWrite /\ NoTimePasses
    /\ UNCHANGED <<began, linkVars, central, led, previousMillis, filterVars,
                   temperature, humidity, pressure, rawT, rawH, rawP,
                   charVars, gap, firstCycle, codecVars>>

ColorReady ==
    /\ pc = "get_color"
    /\ \E c \in ColorReadings :
         /\ rawC' = c
         /\ r' = c[1] /\ g' = c[2] /\ b' = c[3] /\ a' = c[4]
    /\ reads' = [reads EXCEPT !.color = @ + 1]
    /\ pc' = "filter_temperature"
    /\ NoWrite /\ NoTimePasses
    /\ UNCHANGED <<began, linkVars, central, led, previousMillis, filterVars,
                   temperature, humidity, pressure, rawT, rawH, rawP,
                   charVars, gap, firstCycle, codecVars>>

FilterTemperature ==
    /\ pc = "filter_temperature"
    /\ IF ShouldPublish(temperature, previousTemperature)
       THEN /\ tempChar' = temperature
            /\ wrote' = "temperature"
            /\ writeOk' \in BOOLEAN
            /\ previousTemperature' = temperature
       ELSE /\ NoWrite
            /\ UNCHANGED <<tempChar, previousTemperature>>
    /\ pc' = "filter_humidity"
    /\ NoTimePasses
    /\ UNCHANGED <<began, linkVars, central, led, previousMillis, previousHumidity,
                   previousPressure, previousColor, colorVars, localVars, humidChar,
                   pressureChar, colorChar, gap, firstCycle, codecVars>>

FilterHumiditySwapped ==
    /\ pc = "filter_humidity"
    /\ IF ShouldPublish(humidity, previousHumidity)
       THEN /\ humidChar' = temperature
            /\ wrote' = "humidity"
            /\ writeOk' \in BOOLEAN
            /\ previousHumidity' = humidity
       ELSE /\ NoWrite
            /\ UNCHANGED <<humidChar, previousHumidity>>
    /\ pc' = "filter_pressure"
    /\ NoTimePasses
    /\ UNCHANGED <<began, linkVars, central, led, previousMillis, previousTemperature,
                   previousPressure, previousColor, colorVars, localVars, tempChar,
                   pressureChar, colorChar, gap, firstCycle, codecVars>>

FilterHumidity ==
    /\ pc = "filter_humidity"
    /\ IF ShouldPublish(humidity, previousHumidity)
       THEN /\ humidChar' = humidity
            /\ wrote' = "humidity"
            /\ writeOk' \in BOOLEAN
            /\ previousHumidity' = humidity
       ELSE /\ NoWrite
            /\ UNCHANGED <<humidChar, previousHumidity>>
    /\ pc' = "filter_pressure"
    /\ NoTimePasses
    /\ UNCHANGED <<began, linkVars, central, led, previousMillis, previousTemperature,
                   previousPressure, previousColor, colorVars, localVars, tempChar,
                   pressureChar, colorChar, gap, firstCycle, codecVars>>

\* the pressure filter saving into the humidity filter's variable
FilterPressureClobbersHumidity ==
    /\ pc = "filter_pressure"
    /\ IF ShouldPublish(pressure, previousPressure)
       THEN /\ pressureChar' = pressure
            /\ wrote' = "pressure"
            /\ writeOk' \in BOOLEAN
            /\ previousHumidity' = pressure
            /\ UNCHANGED previousPressure
       ELSE /\ NoWrite
            /\ UNCHANGED <<pressureChar, previousPressure, previousHumidity>>
    /\ pc' = "filter_color"
    /\ NoTimePasses
    /\ UNCHANGED <<began, linkVars, central, led, previousMillis, previousTemperature,
                   previousColor, colorVars, localVars, tempChar,
                   humidChar, colorChar, gap, firstCycle, codecVars>>

FilterPressure ==
    /\ pc = "filter_pressure"
    /\ IF ShouldPublish(pressure, previousPressure)
       THEN /\ pressureChar' = pressure
            /\ wrote' = "pressure"
            /\ writeOk' \in BOOLEAN
            /\ previousPressure' = pressure
       ELSE /\ NoWrite
            /\ UNCHANGED <<pressureChar, previousPressure>>
    /\ pc' = "filter_color"
    /\ NoTimePasses
    /\ UNCHANGED <<began, linkVars, central, led, previousMillis, previousTemperature,
                   previousHumidity, previousColor, colorVars, localVars, tempChar,
                   humidChar, colorChar, gap, firstCycle, codecVars>>

\* the colour string is built from r, g, b, a, filtered and written as
\* length + 1 bytes; updateReadings() returns to the while loop
FilterColor ==
    /\ pc = "filter_color"
    /\ LET stringColor == ColorString(r, g, b, a) IN
         IF ShouldPublish(stringColor, previousColor)
         THEN /\ colorChar' = GetBytes(stringColor)
              /\ wrote' = "color"
              /\ writeOk' \in BOOLEAN
              /\ previousColor' = stringColor
         ELSE /\ NoWrite
              /\ UNCHANGED <<colorChar, previousColor>>
    /\ temperature' = 0 /\ humidity' = 0 /\ pressure' = 0
    /\ rawT' = 0 /\ rawH' = 0 /\ rawP' = 0
    /\ rawC' = <<>> /\ reads' = NoReads
    /\ firstCycle' = FALSE
    /\ pc' = "connected"
    /\ NoTimePasses
    /\ UNCHANGED <<began, linkVars, central, led, previousMillis, previousTemperature,
                   previousHumidity, previousPressure, colorVars, tempChar, humidChar,
                   pressureChar, gap, codecVars>>

----------------------------------------------------------------------------
(* The sketch and its environment *)

Setup == SetupHTS \/ SetupBARO \/ SetupAPDS \/ SetupBLE

Loop == LoopIdle \/ Connect \/ Disconnect \/ SchedulerIdle \/ SchedulerFire

UpdateReadings ==
    \/ ReadSensors
    \/ ColorNotReady
    \/ FilterTemperature
    \/ FilterHumidity
    \/ FilterPressure
    \/ FilterColor

\* every step of the thread of control except the colour sensor's
\* "reading available" signal
Sketch == Setup \/ Halted \/ Loop \/ UpdateReadings

Next ==
    \/ SetupHTS
    \/ SetupBARO
    \/ SetupAPDS
    \/ SetupBLE
    \/ Halted
    \/ LinkUp
    \/ LinkDown
    \/ LoopIdle
    \/ Connect
    \/ Disconnect
    \/ SchedulerIdle
    \/ SchedulerFire
    \/ ReadSensors
    \/ ColorNotReady
    \/ ColorReady
    \/ FilterTemperature
    \/ FilterHumidity
    \/ FilterPressure
    \/ FilterColor

Spec == Init /\ [][Next]_vars

\* the loop keeps running
FairSpec == Spec /\ WF_vars(Sketch)

\* the loop keeps running and a polled colour sensor eventually has a reading
LiveSpec == Spec /\ WF_vars(Sketch) /\ WF_vars(ColorReady)

----------------------------------------------------------------------------
(* The value codec in isolation: Init draws the arguments, the action      *)
(* applies the function                                                    *)

CodecInit ==
    /\ \/ pc = "codec" /\ codecArgs \in TempInputs \X CalInputs
       \/ pc = "codec_pressure" /\ codecArgs \in {<<p>> : p \in PresInputs}
       \/ pc = "codec_color"
          /\ codecArgs \in ColorInputs \X ColorInputs \X ColorInputs \X ColorInputs
    /\ codecResult = 0
    /\ began = <<>>
    /\ advertising = FALSE
    /\ linkUp = FALSE
    /\ central = FALSE
    /\ led = "LOW"
    /\ clock = 0
    /\ previousMillis = 0
    /\ previousTemperature = 0
    /\ previousHumidity = 0
    /\ previousPressure = 0
    /\ previousColor = <<>>
    /\ r = 0 /\ g = 0 /\ b = 0 /\ a = 0
    /\ temperature = 0 /\ humidity = 0 /\ pressure = 0
    /\ rawT = 0 /\ rawH = 0 /\ rawP = 0
    /\ rawC = <<>>
    /\ reads = NoReads
    /\ tempChar = 0 /\ humidChar = 0 /\ pressureChar = 0 /\ colorChar = <<>>
    /\ wrote = "none"
    /\ writeOk = TRUE
    /\ elapsed = 0
    /\ gap = 0
    /\ firstCycle = TRUE

EncodeTemperature ==
    /\ pc = "codec"
    /\ codecResult' = getTemperature(codecArgs[1], codecArgs[2])
    /\ pc' = "codec_done"
    /\ UNCHANGED <<began, linkVars, central, led, clock, previousMillis, filterVars,
                   colorVars, localVars, charVars, wrote, writeOk, elapsed, gap,
                   firstCycle, codecArgs>>

EncodePressure ==
    /\ pc = "codec_pressure"
    /\ codecResult' = getPressure(codecArgs[1])
    /\ pc' = "codec_pressure_done"
    /\ UNCHANGED <<began, linkVars, central, led, clock, previousMillis, filterVars,
                   colorVars, localVars, charVars, wrote, writeOk, elapsed, gap,
                   firstCycle, codecArgs>>

\* the byte payload updateReadings builds for the colour characteristic
EncodeColor ==
    /\ pc = "codec_color"
    /\ codecResult' =
         GetBytes(ColorString(codecArgs[1], codecArgs[2], codecArgs[3], codecArgs[4]))
    /\ pc' = "codec_color_done"
    /\ UNCHANGED <<began, linkVars, central, led, clock, previousMillis, filterVars,
                   colorVars, localVars, charVars, wrote, writeOk, elapsed, gap,
                   firstCycle, codecArgs>>

CodecNext == EncodeTemperature \/ EncodePressure \/ EncodeColor

CodecSpec == CodecInit /\ [][CodecNext]_vars

----------------------------------------------------------------------------
(* Properties *)

SetupPcs == {"setup_hts", "setup_baro", "setup_apds", "setup_ble"}

CyclePcs == {"read", "get_color", "filter_temperature", "filter_humidity",
             "filter_pressure", "filter_color"}

\* inside `while (central.connected())`, its body included
ConnectedPcs == {"connected"} \cup CyclePcs

\* the filter step of each channel
TemperatureStep == pc = "filter_temperature" /\ pc' = "filter_humidity"
HumidityStep == pc = "filter_humidity" /\ pc' = "filter_pressure"
PressureStep == pc = "filter_pressure" /\ pc' = "filter_color"
ColorStep == pc = "filter_color" /\ pc' = "connected"

\* "100,200,300,50"
ExampleColorString == <<49, 48, 48, 44, 50, 48, 48, 44, 51, 48, 48, 44, 53, 48>>

\* the C string held in a byte buffer: the bytes before the first NUL
RECURSIVE CString(_)
CString(bytes) ==
    IF bytes = <<>> \/ Head(bytes) = 0 THEN <<>>
    ELSE <<Head(bytes)>> \o CString(Tail(bytes))

\* C1 as stated: whenever a writeValue runs on any characteristic, the
\* transport reports the link as connected at that moment.
C1_PublishOnlyWhileLinkUp == wrote # "none" => linkUp

\* C1 amended: whenever a writeValue runs, the controller is in its Connected
\* state (loop() holds a central and is inside the connected while loop);
\* the link itself may have dropped since the last central.connected() poll.
C1_PublishOnlyWhileControllerConnected ==
    wrote # "none" => (central /\ pc \in ConnectedPcs)

\* a publish that ran after the link had dropped
C1_Witness == wrote # "none" /\ central /\ ~linkUp

\* C2: in each channel's filter step the channel is written if and only if
\* the newly encoded value differs from the stored last-published value, and
\* what is written is that new value; the colour readings (100,200,300,50)
\* are written as "100,200,300,50" and not written again when repeated.
C2_PublishIffChanged ==
    [][ /\ TemperatureStep =>
             /\ (wrote' = "temperature") <=> (temperature # previousTemperature)
             /\ wrote' = "temperature" => tempChar' = temperature
        /\ HumidityStep =>
             /\ (wrote' = "humidity") <=> (humidity # previousHumidity)
             /\ wrote' = "humidity" => humidChar' = humidity
        /\ PressureStep =>
             /\ (wrote' = "pressure") <=> (pressure # previousPressure)
             /\ wrote' = "pressure" => pressureChar' = pressure
        /\ ColorStep =>
             /\ (wrote' = "color") <=> (ColorString(r, g, b, a) # previousColor)
             /\ wrote' = "color" => CString(colorChar') = ColorString(r, g, b, a)
             /\ <<r, g, b, a>> = <<100, 200, 300, 50>> =>
                  IF previousColor = ExampleColorString
                  THEN wrote' = "none"
                  ELSE wrote' = "color" /\ CString(colorChar') = ExampleColorString
        /\ wrote' # "none" =>
             TemperatureStep \/ HumidityStep \/ PressureStep \/ ColorStep
      ]_vars

\* the example string has just been written
C2_Witness ==
    wrote = "color" /\ CString(colorChar) = ExampleColorString /\ ~firstCycle

\* C3 as stated: in the first update cycle every channel is written, whatever
\* its first encoded value.
C3_FirstReadingAlwaysPublished ==
    [][ firstCycle =>
          /\ TemperatureStep => wrote' = "temperature"
          /\ HumidityStep => wrote' = "humidity"
          /\ PressureStep => wrote' = "pressure"
          /\ ColorStep => wrote' = "color"
      ]_vars

\* C3 amended: in the first update cycle the colour channel is always
\* written, and a numeric channel is written if and only if its first
\* encoded value is not 0, the baseline.
C3_FirstReadingPublishedUnlessBaseline ==
    [][ firstCycle =>
          /\ TemperatureStep => ((wrote' = "temperature") <=> (temperature # 0))
          /\ HumidityStep => ((wrote' = "humidity") <=> (humidity # 0))
          /\ PressureStep => ((wrote' = "pressure") <=> (pressure # 0))
          /\ ColorStep => wrote' = "color"
      ]_vars

\* a first temperature reading that encodes to 0 has passed its filter unwritten
C3_Witness ==
    /\ firstCycle /\ pc = "filter_humidity"
    /\ temperature = 0 /\ wrote = "none" /\ tempChar = 0

\* C4: from the end of setup on, each last-published variable equals the
\* value last handed to its characteristic (0 / "" from setup at first).
C4_PreviousIsLastWritten ==
    advertising =>
        /\ previousTemperature = tempChar
        /\ previousHumidity = humidChar
        /\ previousPressure = pressureChar
        /\ previousColor = CString(colorChar)

\* between two cycles, after values have been written and a later cycle
\* suppressed every channel
C4_Witness ==
    /\ pc = "connected" /\ ~firstCycle /\ wrote = "none"
    /\ previousTemperature # 0 /\ previousHumidity # 0
    /\ previousPressure # 0 /\ previousColor # <<>>

\* C5 as stated: a step whose writeValue returns false leaves the
\* last-published variables unchanged.
C5_PreviousKeptOnFailedWrite ==
    [][ (wrote' # "none" /\ ~writeOk') => UNCHANGED filterVars ]_vars

\* C6: every firing of the scheduler samples the clock at least
\* UPDATE_FREQUENCY ms of real time after the previous firing's sample.
C6_RateLimited == pc = "read" => gap >= UPDATE_FREQUENCY

\* a later cycle fired at the first poll at which the interval had elapsed
C6_Witness ==
    /\ pc = "read" /\ ~firstCycle
    /\ gap >= UPDATE_FREQUENCY /\ gap < UPDATE_FREQUENCY + ClockStep

\* the interval test of loop() on the current clock
Due == ToSigned(ToSigned(clock) - previousMillis) >= UPDATE_FREQUENCY

\* C7 as stated: while connected, once the interval has elapsed a cycle
\* eventually fires (or the link drops), whatever the colour sensor does.
C7_TickEventuallyFires ==
    (central /\ linkUp /\ Due) ~> (pc = "read" \/ ~linkUp)

\* C7 amended: the same, provided no getColor wait lasts forever.
C7_TickFiresIfColorArrives ==
    ([]<>(pc # "get_color")) =>
        ((central /\ linkUp /\ Due) ~> (pc = "read" \/ ~linkUp))

\* a later cycle has fired on a live link
C7_Witness == pc = "read" /\ ~firstCycle /\ linkUp /\ gap >= UPDATE_FREQUENCY + ClockStep

\* C8: after setup the LED is on exactly while the controller is inside its
\* connected loop, and off while it waits for a central.
C8_IndicatorTracksLink ==
    advertising =>
        /\ (led = "HIGH") <=> (pc \in ConnectedPcs)
        /\ (led = "HIGH") <=> central
        /\ pc = "loop" => led = "LOW"

\* back to waiting for a central after a connection
C8_Witness == pc = "loop" /\ led = "LOW" /\ ~firstCycle /\ ~linkUp

InitFailed == \E i \in 1..Len(began) : ~began[i][2]

\* C9: once a begin() has failed, the sketch is halted for good: the failed
\* begin() is the last one attempted, advertising never starts, no link, no
\* connection handling, no cycle and no write ever happens.
C9_FatalInitHalts ==
    /\ [](InitFailed =>
            /\ pc = "halted"
            /\ ~began[Len(began)][2]
            /\ \A i \in 1..(Len(began) - 1) : began[i][2]
            /\ ~advertising /\ ~linkUp /\ ~central /\ led = "LOW"
            /\ firstCycle /\ wrote = "none"
            /\ filterVars = <<0, 0, 0, <<>>>>)
    /\ [][InitFailed => (pc' = "halted" /\ began' = began)]_vars

\* halted after the pressure sensor failed, with time going by
C9_Witness ==
    /\ pc = "halted" /\ Len(began) = 2 /\ began[2] = <<"BARO", FALSE>>
    /\ clock > 0

\* C10 as stated: getTemperature(t, c) = round(t*100) + round(c*100).
C10_TemperatureRounds ==
    pc = "codec_done" =>
        codecResult = Round(codecArgs[1], 10) + Round(codecArgs[2], 10)

\* C11 as stated: getPressure returns round(p * 1000 * 10).
C11_PressureRounds ==
    pc = "codec_pressure_done" => codecResult = Round(codecArgs[1], 10)

\* C12: for intensities in 0..65535 the payload written to the colour
\* characteristic, the string "r,g,b,a" and its terminator, is at most
\* ColorCapacity bytes long.
C12_ColorFitsBuffer ==
    pc = "codec_color_done" =>
        /\ Len(codecResult) <= ColorCapacity
        /\ codecResult[Len(codecResult)] = 0
        /\ \A i \in 1..(Len(codecResult) - 1) : codecResult[i] # 0

\* four 5-digit values fill the buffer exactly
C12_Witness ==
    /\ pc = "codec_color_done"
    /\ codecArgs = <<65535, 65535, 65535, 65535>>
    /\ Len(codecResult) = ColorCapacity

\* one iteration of the connected while loop: the link is reported up and
\* the interval test is evaluated
SchedulerStep ==
    /\ pc = "connected" /\ linkUp /\ linkUp'
    /\ pc' \in {"connected", "read"}

\* C13: previousMillis changes only in a firing of the scheduler, which sets
\* it to the clock value sampled for that firing; connecting and
\* disconnecting leave it unchanged, and a scheduler check fires if and only
\* if the sampled clock minus previousMillis is at least UPDATE_FREQUENCY.
C13_LastTickOnlySetByFiring ==
    [][ /\ previousMillis' # previousMillis => (pc = "connected" /\ pc' = "read")
        /\ (pc = "connected" /\ pc' = "read") => previousMillis' = ToSigned(clock')
        /\ central' # central => previousMillis' = previousMillis
        /\ SchedulerStep =>
             ((pc' = "read") <=>
              (ToSigned(ToSigned(clock') - previousMillis) >= UPDATE_FREQUENCY))
      ]_vars

\* disconnected after a cycle, the interval already elapsed and the last
\* tick time still in place
C13_Witness ==
    /\ pc = "loop" /\ ~central /\ ~firstCycle
    /\ previousMillis # 0 /\ Due

FilterPcs == {"filter_temperature", "filter_humidity", "filter_pressure",
              "filter_color"}

\* C14: in every update cycle each channel is read exactly once, all reads
\* come before the first filter check, and what is compared and written is
\* encoded from the readings of that same cycle (r, g, b, a hold the
\* cycle's colour reading when the string is built).
C14_FreshReadings ==
    /\ [](/\ pc \in FilterPcs =>
               /\ reads = [temperature |-> 1, humidity |-> 1, pressure |-> 1,
                           color |-> 1]
               /\ <<r, g, b, a>> = rawC
               /\ temperature = Trunc(rawT, 10) + Trunc(CALIBRATION_FACTOR, 10)
               /\ humidity = Trunc(rawH, 10)
               /\ pressure = Trunc(rawP, 10)
          /\ pc = "get_color" =>
               reads = [temperature |-> 1, humidity |-> 1, pressure |-> 1,
                        color |-> 0]
          /\ pc \notin {"get_color"} \cup FilterPcs => reads = NoReads)
    /\ [][ /\ wrote' = "temperature" =>
                tempChar' = Trunc(rawT, 10) + Trunc(CALIBRATION_FACTOR, 10)
           /\ wrote' = "humidity" => humidChar' = Trunc(rawH, 10)
           /\ wrote' = "pressure" => pressureChar' = Trunc(rawP, 10)
           /\ ColorStep =>
                /\ (wrote' = "color") <=>
                     (ColorString(rawC[1], rawC[2], rawC[3], rawC[4]) # previousColor)
                /\ wrote' = "color" =>
                     CString(colorChar') =
                         ColorString(rawC[1], rawC[2], rawC[3], rawC[4])
         ]_vars

\* a later cycle has read a colour that is about to be suppressed
C14_Witness ==
    /\ pc = "filter_color" /\ ~firstCycle
    /\ reads.color = 1 /\ <<r, g, b, a>> = rawC
    /\ ColorString(r, g, b, a) = previousColor

\* C15: a channel's filter step decides on its own new value and its own
\* last-published value only, and leaves the last-published values and the
\* characteristics of the other three channels unchanged.
C15_ChannelsIndependent ==
    [][ /\ TemperatureStep =>
             /\ UNCHANGED <<previousHumidity, previousPressure, previousColor,
                            humidChar, pressureChar, colorChar>>
             /\ (wrote' = "none") <=> (temperature = previousTemperature)
        /\ HumidityStep =>
             /\ UNCHANGED <<previousTemperature, previousPressure, previousColor,
                            tempChar, pressureChar, colorChar>>
             /\ (wrote' = "none") <=> (humidity = previousHumidity)
        /\ PressureStep =>
             /\ UNCHANGED <<previousTemperature, previousHumidity, previousColor,
                            tempChar, humidChar, colorChar>>
             /\ (wrote' = "none") <=> (pressure = previousPressure)
        /\ ColorStep =>
             /\ UNCHANGED <<previousTemperature, previousHumidity, previousPressure,
                            tempChar, humidChar, pressureChar>>
             /\ (wrote' = "none") <=> (ColorString(r, g, b, a) = previousColor)
        /\ previousTemperature' # previousTemperature => TemperatureStep
        /\ previousHumidity' # previousHumidity => HumidityStep
        /\ previousPressure' # previousPressure => PressureStep
        /\ previousColor' # previousColor => ColorStep
      ]_vars

\* pressure has just been published in a cycle that suppressed humidity
C15_Witness ==
    /\ pc = "filter_color" /\ wrote = "pressure"
    /\ humidity = 0 /\ previousHumidity = 0 /\ humidChar = 0
    /\ previousPressure = pressure /\ previousTemperature = temperature

\* C16: while getColor waits, nothing is written and the last-published
\* values, the characteristics, previousMillis, the LED, r, g, b, a and the
\* encoded readings of the cycle stay as they are; the read that ends the
\* wait changes only r, g, b, a, so the filters decide on the same values.
C16_ColorWaitKeepsState ==
    [][ /\ (pc = "get_color" /\ pc' = "get_color") =>
             /\ wrote' = "none"
             /\ UNCHANGED <<filterVars, charVars, previousMillis, led, central,
                            colorVars, temperature, humidity, pressure>>
        /\ (pc = "get_color" /\ pc' # "get_color") =>
             /\ pc' = "filter_temperature"
             /\ wrote' = "none"
             /\ UNCHANGED <<filterVars, charVars, previousMillis, led, central,
                            temperature, humidity, pressure>>
      ]_vars

\* a later cycle has been waiting for the colour sensor for some time
C16_Witness ==
    /\ pc = "get_color" /\ ~firstCycle
    /\ elapsed >= 2 * ClockStep /\ previousColor # <<>>

\* C17 as stated: once the controller is Connected and the link is down, it
\* eventually is back waiting for a central with the LED off (unless the
\* link is up again before it polls), whatever the sensors do.
C17_DropEventuallyActedOn ==
    (central /\ ~linkUp) ~> ((pc = "loop" /\ ~central /\ led = "LOW") \/ linkUp)

\* C17 amended: the same, provided no getColor wait lasts forever.
C17_DropActedOnIfColorArrives ==
    ([]<>(pc # "get_color")) =>
        ((central /\ ~linkUp) ~> ((pc = "loop" /\ ~central /\ led = "LOW") \/ linkUp))

\* the controller has left a connection in which cycles ran
C17_Witness ==
    /\ pc = "loop" /\ ~central /\ led = "LOW" /\ ~linkUp
    /\ previousColor # <<>>

\* C18: connecting and disconnecting leave the four last-published values
\* (and the characteristics) unchanged, and a channel is written only if its
\* encoded value differs from the value last written to its characteristic,
\* in whatever connection that was.
C18_FilterPersistsAcrossConnections ==
    [][ /\ central' # central => UNCHANGED <<filterVars, charVars>>
        /\ (pc \notin FilterPcs) => UNCHANGED filterVars
        /\ wrote' = "temperature" => temperature # tempChar
        /\ wrote' = "humidity" => humidity # humidChar
        /\ wrote' = "pressure" => pressure # pressureChar
        /\ wrote' = "color" => ColorString(r, g, b, a) # CString(colorChar)
      ]_vars

\* a central is connecting while the filter holds values published earlier
C18_Witness ==
    /\ pc = "loop" /\ ~central /\ linkUp /\ ~firstCycle
    /\ previousTemperature # 0 /\ previousColor # <<>>

\* C19 as stated: a scheduler check fires exactly when at least
\* UPDATE_FREQUENCY ms of real time have passed since the last firing.
C19_FiresExactlyWhenElapsed ==
    [][ SchedulerStep =>
          ((pc' = "read") <=>
           ((IF pc' = "read" THEN gap' ELSE elapsed') >= UPDATE_FREQUENCY))
      ]_vars

\* C19 amended: a check never fires before UPDATE_FREQUENCY ms of real time
\* have passed, and as long as less than 2^(W-1) ms have passed since the
\* last firing it fires exactly when at least UPDATE_FREQUENCY ms have.
C19_FiresExactlyWithinHalfRange ==
    [][ SchedulerStep =>
          LET since == IF pc' = "read" THEN gap' ELSE elapsed' IN
            /\ pc' = "read" => since >= UPDATE_FREQUENCY
            /\ since < HalfModulus =>
                 ((pc' = "read") <=> (since >= UPDATE_FREQUENCY))
      ]_vars

\* a firing whose interval crossed the signed maximum of the counter
C19_Witness ==
    /\ pc = "read"
    /\ gap >= UPDATE_FREQUENCY /\ gap < HalfModulus
    /\ clock >= HalfModulus /\ clock - gap < HalfModulus

====
